---- MODULE Spec2Model ----
(***************************************************************************)
(* Disclosure controller of natural-gallery-js (src/app/js/Gallery.ts):    *)
(* the collection of items, the prefix of it that is materialized in the   *)
(* DOM body and in the PhotoSwipe container, and the handlers that grow or *)
(* rebuild that prefix: addItems, addElements, resize, refresh, reset, the *)
(* "next" button and the scroll listener.  The constructor, with its use   *)
(* of the collection setter, gives the initial states.                     *)
(* Organizer (the layout engine) is not part of Gallery.ts; it is modelled *)
(* from section 4.1 of the specification.                                  *)
(***************************************************************************)
EXTENDS Integers, Sequences, FiniteSets, TLC

VARIABLES options, events, collection, pswpContainer, attached, bodyWidth,
          nextButton, noResults, imagesEl, old_scroll_top, selected, last

vars == <<options, events, collection, pswpContainer, attached, bodyWidth,
          nextButton, noResults, imagesEl, old_scroll_top, selected, last>>

(* ---------------------------- bounds ----------------------------------- *)
MaxItems == 3
MaxBatch == 2
MaxRows == 2
MaxScroll == 1

(* ------------------------ program constants ---------------------------- *)
rowHeight == 350
margin == 3
defaultImageRatio10 == 7

(* ------------------------ input domains -------------------------------- *)
\* aspect ratios of the images, in tenths (10 = square, 20 = 2:1 landscape)
Ratios == {10, 20}
\* widths the body element can be measured at
Widths == {400, 800}
\* viewport height minus bodyElement.offsetTop, as read by getRowsPerPage
VisibleHeights == {-100, 700}
\* options.limit and options.minRowsAtStart as handed to the constructor
OptionSets == {[limit |-> 0, minRowsAtStart |-> 0],
               [limit |-> 0, minRowsAtStart |-> 1],
               [limit |-> 1, minRowsAtStart |-> 2]}
\* clientHeight of the scroll wrapper and bottom of the gallery, as read by the scroll listener
WrapperHeights == {2}
EndOfGallery == {2, 3}

RECURSIVE SeqsUpTo(_, _)
SeqsUpTo(S, n) ==
    IF n = 0 THEN {<<>>}
    ELSE LET shorter == SeqsUpTo(S, n - 1)
         IN  shorter \cup {Append(s, x) : s \in {t \in shorter : Len(t) = n - 1}, x \in S}

\* values a caller can hand to addItems: an array of item fields, or something else
ItemInputs ==
    {[kind |-> "array", items |-> s] : s \in SeqsUpTo(Ratios, MaxBatch)}
    \cup {[kind |-> k, items |-> <<>>] : k \in {"object", "string", "null", "undefined"}}

NoInput == [kind |-> "none", items |-> <<>>]

(* ----------------------- layout engine (Organizer) --------------------- *)
\* natural width of an item at the target row height; a missing ratio counts as square
naturalWidth(item) ==
    IF item.ratio = 0 THEN rowHeight ELSE (rowHeight * item.ratio) \div 10

RECURSIVE organizeFrom(_, _, _, _, _, _, _)
organizeFrom(coll, i, row, sum, count, W, acc) ==
    IF i > Len(coll) THEN acc
    ELSE LET nw == naturalWidth(coll[i])
         IN  IF count > 0 /\ sum + nw + count * margin > W
             THEN organizeFrom(coll, i + 1, row + 1, nw, 1, W,
                               Append(acc, [coll[i] EXCEPT !.row = row + 1]))
             ELSE organizeFrom(coll, i + 1, row, sum + nw, count + 1, W,
                               Append(acc, [coll[i] EXCEPT !.row = row]))

\* Organizer.organize: assigns every item of the collection its row at width W
organize(coll, W) == organizeFrom(coll, 1, 0, 0, 0, W, <<>>)

\* Organizer.simulatePagination: items per row estimated from the default ratio
simulatePagination(W) ==
    LET w == (rowHeight * defaultImageRatio10) \div 10
        n == (W + margin) \div (w + margin)
    IN  IF n < 1 THEN 1 ELSE n

(* ----------------------------- helpers --------------------------------- *)
Max(S) == CHOOSE x \in S : \A y \in S : y <= x

\* item.getPswpItem(): the viewer entry of an item, identified by the item
getPswpItem(item) == item.id

\* new Item(fields, gallery) for each element of the batch, pushed in order
pushItems(coll, items) ==
    coll \o [j \in 1..Len(items) |-> [id |-> Len(coll) + j, ratio |-> items[j], row |-> -1]]

\* the gallery object as one record; hooks, thrown and rows describe the running
\* handler: the pagination calls it made, whether it raised a TypeError, and the
\* argument of its addElements call (-1 when it made none)
G == [collection |-> collection, pswpContainer |-> pswpContainer,
      attached |-> attached, bodyWidth |-> bodyWidth,
      nextButton |-> nextButton, noResults |-> noResults,
      imagesEl |-> imagesEl, old_scroll_top |-> old_scroll_top,
      hooks |-> <<>>, thrown |-> FALSE, rows |-> -1]

(* --------------------------- Gallery methods --------------------------- *)
getRowsPerPage_clampLimit(vh) ==
    LET nbRows == IF options.limit # 0 THEN options.limit
                  ELSE (vh * 10) \div (rowHeight * 7)
    IN  IF nbRows < options.minRowsAtStart THEN options.minRowsAtStart ELSE nbRows

\* vh is winHeight - bodyElement.offsetTop; rowHeight * 0.7 is kept exact as
\* rowHeight * 7 / 10
getRowsPerPage(vh) ==
    IF options.limit # 0 THEN options.limit
    ELSE LET nbRows == (vh * 10) \div (rowHeight * 7)
         IN  IF nbRows < options.minRowsAtStart THEN options.minRowsAtStart ELSE nbRows

reset_keepElements(g) ==
    [g EXCEPT !.pswpContainer = <<>>, !.noResults = "block"]

reset_keepIndicator(g) ==
    [g EXCEPT !.pswpContainer = <<>>, !.attached = <<>>]

reset(g) ==
    [g EXCEPT !.pswpContainer = <<>>, !.attached = <<>>, !.noResults = "block"]

nextElements_fromStart(coll, nextImage, lastRow) ==
    SelectSeq(coll, LAMBDA item : item.row < lastRow)

nextElements_inclusive(coll, nextImage, lastRow) ==
    SelectSeq(SubSeq(coll, nextImage + 1, Len(coll)), LAMBDA item : item.row <= lastRow)

\* the loop of addElements: the items from index nextImage (0-based) on whose row
\* is below lastRow, in collection order
nextElements(coll, nextImage, lastRow) ==
    SelectSeq(SubSeq(coll, nextImage + 1, Len(coll)), LAMBDA item : item.row < lastRow)

moreButton_shown(shownCount, total) ==
    "block"

\* the "more" button after the loop: shown on entry, hidden once every item of
\* the collection is in pswpContainer
moreButton(shownCount, total) ==
    IF shownCount = total THEN "none" ELSE "block"

lastRow_ofLastShown(coll, k, rows) ==
    IF k # 0 THEN coll[k].row + rows ELSE rows

\* the first row that is not revealed: rows past the row of the first item that
\* is not yet in pswpContainer, or rows itself when nothing is shown yet
lastRowOf(coll, k, rows) ==
    IF k # 0 THEN coll[k + 1].row + rows ELSE rows

appendChild_first(children, shown) ==
    [j \in 1..Len(shown) |-> shown[j].id] \o children

\* bodyElement.appendChild(item.loadElement()) for each selected item, in order
appendChild(children, shown) ==
    children \o [j \in 1..Len(shown) |-> shown[j].id]

addElements(g, rows) ==
    LET coll == g.collection
        k == Len(g.pswpContainer)
    IN  IF k = Len(coll)
        THEN IF Len(coll) = 0
             THEN IF g.imagesEl = "absent"
                  THEN [g EXCEPT !.nextButton = "none", !.noResults = "block",
                                 !.thrown = TRUE, !.rows = rows]
                  ELSE [g EXCEPT !.nextButton = "none", !.noResults = "block",
                                 !.imagesEl = "none", !.rows = rows]
             ELSE [g EXCEPT !.nextButton = "none", !.rows = rows]
        ELSE LET lastRow == lastRowOf(coll, k, rows)
                 shown == nextElements(coll, k, lastRow)
                 pswp == g.pswpContainer \o [j \in 1..Len(shown) |-> getPswpItem(shown[j])]
             IN  [g EXCEPT !.rows = rows,
                           !.pswpContainer = pswp,
                           !.attached = appendChild(g.attached, shown),
                           !.nextButton = moreButton(Len(pswp), Len(coll)),
                           !.noResults = "none",
                           !.imagesEl = IF g.imagesEl = "absent" THEN "absent" ELSE "block"]

getMaxImagesPerRow(coll) ==
    Max({Cardinality({i \in 1..Len(coll) : coll[i].row = r}) : r \in {coll[i].row : i \in 1..Len(coll)}})

pagination_perRow(g, nbRows, vh) ==
    IF ~events.pagination THEN g
    ELSE IF Len(g.collection) # 0
         THEN [g EXCEPT !.hooks = Append(g.hooks,
                    <<Len(g.collection), getMaxImagesPerRow(g.collection)>>)]
         ELSE [g EXCEPT !.hooks = Append(g.hooks,
                    <<Len(g.collection), simulatePagination(g.bodyWidth) * getRowsPerPage(vh) * 2>>)]

pagination(g, nbRows, vh) ==
    IF ~events.pagination THEN g
    ELSE IF Len(g.collection) # 0
         THEN [g EXCEPT !.hooks = Append(g.hooks,
                    <<Len(g.collection), getMaxImagesPerRow(g.collection) * nbRows>>)]
         ELSE [g EXCEPT !.hooks = Append(g.hooks,
                    <<Len(g.collection), simulatePagination(g.bodyWidth) * getRowsPerPage(vh) * 2>>)]

displayNew_firstOnly(g) ==
    Len(g.collection) = 0

displayNew_always(g) ==
    TRUE

\* addItems: "display newly added images if it's the first addition or if all
\* images are already shown"
displayNew(g) ==
    Len(g.collection) = 0 \/ Len(g.collection) = Len(g.pswpContainer)

addItems(g, input, vh) ==
    IF input.kind \in {"null", "undefined"} THEN [g EXCEPT !.thrown = TRUE]
    ELSE IF ~(input.kind = "array" /\ Len(input.items) # 0) THEN g
    ELSE LET display == displayNew(g)
             g1 == [g EXCEPT !.collection =
                        organize(pushItems(g.collection, input.items), g.bodyWidth)]
         IN  IF display THEN addElements(g1, getRowsPerPage(vh)) ELSE g1

widthChanged_always(g, containerWidth) ==
    TRUE

\* the test of resize: the measured width differs from the recorded one
widthChanged(g, containerWidth) ==
    containerWidth # g.bodyWidth

resize_noReveal(g, containerWidth, vh) ==
    IF widthChanged(g, containerWidth)
    THEN [g EXCEPT !.bodyWidth = containerWidth,
                   !.collection = organize(g.collection, containerWidth)]
    ELSE g

resize_rowsBefore(g, containerWidth, vh) ==
    IF widthChanged(g, containerWidth)
    THEN LET g1 == [g EXCEPT !.bodyWidth = containerWidth,
                             !.collection = organize(g.collection, containerWidth)]
             k == Len(g.pswpContainer)
             nbRows == IF k >= 1 /\ k <= Len(g.collection)
                       THEN g.collection[k].row + 1 ELSE getRowsPerPage(vh)
         IN  addElements(reset(g1), nbRows)
    ELSE g

resize(g, containerWidth, vh) ==
    IF widthChanged(g, containerWidth)
    THEN LET g1 == [g EXCEPT !.bodyWidth = containerWidth,
                             !.collection = organize(g.collection, containerWidth)]
             k == Len(g1.pswpContainer)
             nbRows == IF k >= 1 /\ k <= Len(g1.collection)
                       THEN g1.collection[k].row + 1 ELSE getRowsPerPage(vh)
         IN  addElements(reset(g1), nbRows)
    ELSE g

refresh(g, vh) ==
    LET g1 == reset(g)
        g2 == [g1 EXCEPT !.collection = organize(g1.collection, g1.bodyWidth)]
    IN  addElements(g2, getRowsPerPage(vh))

\* click listener of the "next" button
nextClick(g, vh) ==
    LET rows == getRowsPerPage(vh)
        g1 == addElements(g, rows)
    IN  IF g1.thrown THEN g1 ELSE pagination(g1, rows, vh)

\* the condition under which the scroll listener reveals a row
scrollFires(old, current_scroll_top, wrapperHeight, endOfGalleryAt) ==
    current_scroll_top - old > 0 /\ current_scroll_top + wrapperHeight >= endOfGalleryAt

\* scroll listener installed by bindScroll
onScroll(g, current_scroll_top, wrapperHeight, endOfGalleryAt, vh) ==
    LET g1 == [g EXCEPT !.old_scroll_top = current_scroll_top]
    IN  IF scrollFires(g.old_scroll_top, current_scroll_top, wrapperHeight, endOfGalleryAt)
        THEN LET g2 == addElements(g1, 1)
             IN  IF g2.thrown THEN g2 ELSE pagination(g2, 1, vh)
        ELSE g1

\* set collection(items)
setCollection(g, input, vh) ==
    addItems([reset(g) EXCEPT !.collection = <<>>], input, vh)

(* ------------------------------ actions -------------------------------- *)
\* the materialized prefix of coll of length k stops between two rows (or at the end)
OnRowBoundary(coll, k) ==
    k = Len(coll) \/ \A i \in 1..k : coll[i].row < coll[k + 1].row

\* `last` describes the handler that ran last: its name and arguments, the
\* argument of its addElements call, the pagination calls it made, whether it
\* raised, and the sizes and recorded width it started from (and whether the
\* materialized items then ended between two rows)
noScroll == [top |-> 0, height |-> 0, end |-> 0]

\* the gallery variables hold the gallery g
InState(g) ==
    /\ collection = g.collection
    /\ pswpContainer = g.pswpContainer
    /\ attached = g.attached
    /\ bodyWidth = g.bodyWidth
    /\ nextButton = g.nextButton
    /\ noResults = g.noResults
    /\ imagesEl = g.imagesEl
    /\ old_scroll_top = g.old_scroll_top

Commit(g, op, input, width, scroll) ==
    /\ collection' = g.collection
    /\ pswpContainer' = g.pswpContainer
    /\ attached' = g.attached
    /\ bodyWidth' = g.bodyWidth
    /\ nextButton' = g.nextButton
    /\ noResults' = g.noResults
    /\ imagesEl' = g.imagesEl
    /\ old_scroll_top' = g.old_scroll_top
    /\ last' = [op |-> op, input |-> input, rows |-> g.rows, width |-> width,
                scroll |-> scroll, hooks |-> g.hooks, thrown |-> g.thrown,
                pre |-> [k |-> Len(pswpContainer), len |-> Len(collection),
                         bodyWidth |-> bodyWidth,
                         boundary |-> OnRowBoundary(collection, Len(pswpContainer))]]
    /\ UNCHANGED <<options, events, selected>>

\* the gallery right after render() and the measure of the body (constructor,
\* before data.images is looked at)
rendered(w, hasImagesEl) ==
    [collection |-> <<>>, pswpContainer |-> <<>>, attached |-> <<>>, bodyWidth |-> w,
     nextButton |-> "none", noResults |-> "block",
     imagesEl |-> IF hasImagesEl THEN "" ELSE "absent",
     old_scroll_top |-> 0, hooks |-> <<>>, thrown |-> FALSE, rows |-> -1]

\* constructor: render(), measure the body, then load data.images through the
\* collection setter or, without data.images, ask for a first page
construct(w, hasImagesEl, images, vh) ==
    IF images.kind = "array"
    THEN setCollection(rendered(w, hasImagesEl), images, vh)
    ELSE pagination(rendered(w, hasImagesEl), 1, vh)

Init ==
    \E opts \in OptionSets, pg \in BOOLEAN, hasImagesEl \in BOOLEAN,
       w \in Widths, vh \in VisibleHeights,
       images \in {NoInput} \cup {i \in ItemInputs : i.kind = "array"} :
        /\ options = opts
        /\ events = [pagination |-> pg, select |-> FALSE]
        /\ selected = <<>>
        /\ LET g == construct(w, hasImagesEl, images, vh)
           IN  /\ collection = g.collection
               /\ pswpContainer = g.pswpContainer
               /\ attached = g.attached
               /\ bodyWidth = g.bodyWidth
               /\ nextButton = g.nextButton
               /\ noResults = g.noResults
               /\ imagesEl = g.imagesEl
               /\ old_scroll_top = g.old_scroll_top
               /\ last = [op |-> "constructor", input |-> images, rows |-> g.rows,
                          width |-> w, scroll |-> noScroll, hooks |-> g.hooks,
                          thrown |-> g.thrown,
                          pre |-> [k |-> 0, len |-> 0, bodyWidth |-> w,
                                   boundary |-> TRUE]]

AddItems ==
    \E input \in ItemInputs, vh \in VisibleHeights :
        /\ Len(collection) + Len(input.items) <= MaxItems
        /\ Commit(addItems(G, input, vh), "addItems", input, bodyWidth, noScroll)

AddElements ==
    \E rows \in 0..MaxRows :
        Commit(addElements(G, rows), "addElements", NoInput, bodyWidth, noScroll)

Resize ==
    \E w \in Widths, vh \in VisibleHeights :
        Commit(resize(G, w, vh), "resize", NoInput, w, noScroll)

Refresh ==
    \E vh \in VisibleHeights :
        Commit(refresh(G, vh), "refresh", NoInput, bodyWidth, noScroll)

Reset ==
    Commit(reset(G), "reset", NoInput, bodyWidth, noScroll)

NextClick ==
    \E vh \in VisibleHeights :
        Commit(nextClick(G, vh), "next", NoInput, bodyWidth, noScroll)

scrollBound_always(opts) ==
    TRUE

\* the constructor binds the scroll listener only when no page size is set
scrollBound(opts) ==
    opts.limit = 0

\* a scroll event of the scroll element: the listener runs if it was bound,
\* otherwise nothing of the gallery runs
Scroll ==
    \E top \in 0..MaxScroll, h \in WrapperHeights, e \in EndOfGallery, vh \in VisibleHeights :
        IF scrollBound(options)
        THEN Commit(onScroll(G, top, h, e, vh), "scroll", NoInput, bodyWidth,
                    [top |-> top, height |-> h, end |-> e])
        ELSE Commit(G, "scrollUnbound", NoInput, bodyWidth, noScroll)

Next ==
    \/ AddItems
    \/ AddElements
    \/ Resize
    \/ Refresh
    \/ Reset
    \/ NextClick
    \/ Scroll

Spec == Init /\ [][Next]_vars

(* --------------- galleries whose reveals ask for a row ----------------- *)
\* options under which getRowsPerPage() is at least 1
InitOneRow ==
    /\ Init
    /\ (options.limit >= 1 \/ options.minRowsAtStart >= 1)

AddElementsOneRow ==
    \E rows \in 1..MaxRows :
        Commit(addElements(G, rows), "addElements", NoInput, bodyWidth, noScroll)

NextOneRow ==
    \/ AddItems
    \/ AddElementsOneRow
    \/ Resize
    \/ Refresh
    \/ Reset
    \/ NextClick
    \/ Scroll

SpecOneRow == InitOneRow /\ [][NextOneRow]_vars

(* ------------- reveal triggers on a collection that is fixed ----------- *)
\* a gallery constructed with data.images; afterwards only reveals happen.
\* last.tick changes with every handler run, so that a trigger that reveals
\* nothing is still a step of the behaviour.
InitReveal ==
    \E opts \in OptionSets, hasImagesEl \in BOOLEAN, w \in Widths,
       vh \in VisibleHeights, items \in SeqsUpTo(Ratios, MaxItems) :
        /\ options = opts
        /\ events = [pagination |-> FALSE, select |-> FALSE]
        /\ selected = <<>>
        /\ LET g == construct(w, hasImagesEl, [kind |-> "array", items |-> items], vh)
           IN  /\ InState(g)
               /\ last = [op |-> "constructor", rows |-> g.rows, thrown |-> g.thrown,
                          pre |-> [k |-> 0], tick |-> 0]

CommitReveal(g, op) ==
    /\ collection' = g.collection
    /\ pswpContainer' = g.pswpContainer
    /\ attached' = g.attached
    /\ bodyWidth' = g.bodyWidth
    /\ nextButton' = g.nextButton
    /\ noResults' = g.noResults
    /\ imagesEl' = g.imagesEl
    /\ old_scroll_top' = g.old_scroll_top
    /\ last' = [op |-> op, rows |-> g.rows, thrown |-> g.thrown,
                pre |-> [k |-> Len(pswpContainer)], tick |-> 1 - last.tick]
    /\ UNCHANGED <<options, events, selected>>

RevealRows ==
    \E rows \in 0..MaxRows : CommitReveal(addElements(G, rows), "addElements")

MoreClick ==
    \E vh \in VisibleHeights : CommitReveal(nextClick(G, vh), "next")

ScrollEvent ==
    /\ scrollBound(options)
    /\ \E top \in 0..MaxScroll, h \in WrapperHeights, e \in EndOfGallery,
          vh \in VisibleHeights :
           CommitReveal(onScroll(G, top, h, e, vh), "scroll")

NextReveal ==
    \/ RevealRows
    \/ MoreClick
    \/ ScrollEvent

\* the "more" button is clicked again and again
SpecReveal == InitReveal /\ [][NextReveal]_vars /\ WF_vars(MoreClick)

(* ------------------------ select and unselect -------------------------- *)
\* item.fields: the fields the item was created from
fields(item) == item.ratio

\* this._selected.map(i => i.fields); selected items are named by their id,
\* which is their place in the collection
selectedFields(coll, sel) == [j \in 1..Len(sel) |-> fields(coll[sel[j]])]

\* Array.prototype.indexOf, 0-based, -1 when absent
indexOf(sel, id) ==
    IF \E i \in 1..Len(sel) : sel[i] = id
    THEN (CHOOSE i \in 1..Len(sel) : sel[i] = id /\ \A j \in 1..(i - 1) : sel[j] # id) - 1
    ELSE -1

\* Array.prototype.splice(index, 1)
splice(sel, index) == SubSeq(sel, 1, index) \o SubSeq(sel, index + 2, Len(sel))

\* this._events.select(list): recorded in calls; a TypeError when data.events
\* has no select callback
selectEvent(coll, sel) ==
    IF events.select
    THEN [selected |-> sel, calls |-> <<selectedFields(coll, sel)>>, thrown |-> FALSE]
    ELSE [selected |-> sel, calls |-> <<>>, thrown |-> TRUE]

select_always(coll, sel, item) ==
    selectEvent(coll, Append(sel, item.id))

select(coll, sel, item) ==
    LET index == indexOf(sel, item.id)
    IN  IF index = -1
        THEN selectEvent(coll, Append(sel, item.id))
        ELSE [selected |-> sel, calls |-> <<>>, thrown |-> FALSE]

unselect(coll, sel, item) ==
    LET index == indexOf(sel, item.id)
    IN  IF index > -1
        THEN selectEvent(coll, splice(sel, index))
        ELSE [selected |-> sel, calls |-> <<>>, thrown |-> FALSE]

\* a gallery constructed with data.images, with or without a select callback
InitSelect ==
    \E sel \in BOOLEAN, w \in Widths, items \in SeqsUpTo(Ratios, MaxItems) :
        /\ options = [limit |-> 0, minRowsAtStart |-> 2]
        /\ events = [pagination |-> FALSE, select |-> sel]
        /\ InState(construct(w, TRUE, [kind |-> "array", items |-> items], 700))
        /\ selected = <<>>
        /\ last = [op |-> "constructor", item |-> 0, calls |-> <<>>, thrown |-> FALSE,
                   pre |-> <<>>]

CommitSelected(s, op, item) ==
    /\ selected' = s.selected
    /\ last' = [op |-> op, item |-> item.id, calls |-> s.calls, thrown |-> s.thrown,
                pre |-> selected]
    /\ UNCHANGED <<options, events, collection, pswpContainer, attached, bodyWidth,
                   nextButton, noResults, imagesEl, old_scroll_top>>

Select ==
    \E i \in 1..Len(collection) :
        /\ Len(selected) <= MaxItems
        /\ CommitSelected(select(collection, selected, collection[i]), "select",
                          collection[i])

Unselect ==
    \E i \in 1..Len(collection) :
        CommitSelected(unselect(collection, selected, collection[i]), "unselect",
                       collection[i])

NextSelect == Select \/ Unselect

SpecSelect == InitSelect /\ [][NextSelect]_vars

(* ------------- getRowsPerPage as a function of its inputs -------------- *)
\* options.limit and options.minRowsAtStart, the client height of the scroll
\* element (or of the document) and bodyElement.offsetTop
RowLimits == {0, 1, 3}
RowMinRows == {0, 1, 2, 4}
WinHeights == {300, 800, 1200}
OffsetTops == {0, 100, 900}

InitRows ==
    \E l \in RowLimits, m \in RowMinRows, w \in Widths :
        /\ options = [limit |-> l, minRowsAtStart |-> m]
        /\ events = [pagination |-> FALSE, select |-> FALSE]
        /\ selected = <<>>
        /\ InState(rendered(w, FALSE))
        /\ last = [op |-> "render", winHeight |-> 0, offsetTop |-> 0, result |-> 0]

GetRowsPerPage ==
    \E winHeight \in WinHeights, offsetTop \in OffsetTops :
        /\ last' = [op |-> "getRowsPerPage", winHeight |-> winHeight,
                    offsetTop |-> offsetTop,
                    result |-> getRowsPerPage(winHeight - offsetTop)]
        /\ UNCHANGED <<options, events, collection, pswpContainer, attached, bodyWidth,
                       nextButton, noResults, imagesEl, old_scroll_top, selected>>

NextRows == GetRowsPerPage

SpecRows == InitRows /\ [][NextRows]_vars

(* ------------------------- notation of the claims ---------------------- *)
\* In the action formulas below the unprimed variables are the state a handler
\* starts from and the primed ones the state it leaves.
K == Len(pswpContainer)
Min(a, b) == IF a < b THEN a ELSE b
NonEmptyArray(input) == input.kind = "array" /\ Len(input.items) # 0
GalleryUnchanged ==
    UNCHANGED <<collection, pswpContainer, attached, bodyWidth, nextButton,
                noResults, imagesEl, old_scroll_top>>
\* the entries a reveal of `rows` rows appends when k items of coll are materialized
RevealedIds(coll, k, rows) ==
    LET bound == IF k = 0 THEN rows ELSE coll[k + 1].row + rows
    IN  {coll[i].id : i \in {j \in (k + 1)..Len(coll) : coll[j].row < bound}}

\* C1: in every reachable state pswpContainer holds exactly the viewer entries of
\* collection[0..k), in collection order, for k = pswpContainer.length.
C1_MaterializedPrefix ==
    /\ K <= Len(collection)
    /\ \A i \in 1..K : pswpContainer[i] = getPswpItem(collection[i])

C1_Witness ==
    /\ last.op \in {"addElements", "scroll", "next"}
    /\ last.pre.k > 0
    /\ K > last.pre.k
    /\ K < Len(collection)

\* C2: a resize that observes a new width when exactly r >= 1 rows were
\* materialized leaves exactly r rows of the new layout materialized, whenever
\* the new layout has at least r rows.
C2_ResizeRowPreservation ==
    [][(/\ last'.op = "resize"
        /\ last'.width # bodyWidth
        /\ K >= 1
        /\ OnRowBoundary(collection, K)
        /\ collection'[Len(collection')].row + 1 >= collection[K].row + 1)
       => /\ Len(pswpContainer') >= 1
          /\ collection'[Len(pswpContainer')].row + 1 = collection[K].row + 1
          /\ OnRowBoundary(collection', Len(pswpContainer'))]_vars

\* C3: addElements(rowCount), rowCount >= 1, with k < collection.length items
\* materialized appends exactly the items i >= k whose row is below
\* row(collection[k]) + rowCount; they span min(rowCount, rows left) distinct
\* rows, and when fewer than rowCount rows are left everything is materialized.
C3_RevealRows ==
    [][(last'.op = "addElements" /\ last'.rows >= 1 /\ K < Len(collection))
       => LET expected == RevealedIds(collection, K, last'.rows)
              K2 == Len(pswpContainer')
              rowsLeft == {collection[i].row : i \in (K + 1)..Len(collection)}
              newRows == {collection[i].row : i \in (K + 1)..K2}
          IN  /\ collection' = collection
              /\ K2 >= K
              /\ SubSeq(pswpContainer', 1, K) = pswpContainer
              /\ {pswpContainer'[i] : i \in (K + 1)..K2} = expected
              /\ K2 - K = Cardinality(expected)
              /\ Cardinality(newRows) = Min(last'.rows, Cardinality(rowsLeft))
              /\ newRows = {r \in rowsLeft : r < collection[K + 1].row + last'.rows}
              /\ (Cardinality(rowsLeft) < last'.rows => K2 = Len(collection))
              /\ ~last'.thrown]_vars

C3_Witness ==
    /\ last.op = "addElements"
    /\ last.rows >= 1
    /\ last.pre.k > 0
    /\ last.pre.k < last.pre.len
    /\ K > last.pre.k
    /\ K < Len(collection)

\* C4 as stated: addItems of a non-empty array when everything is materialized
\* re-runs the layout, reveals one page of rows in the same call, and the
\* materialized count strictly increases.
C4_AutoRevealAlwaysGrows ==
    [][(last'.op = "addItems" /\ NonEmptyArray(last'.input) /\ K = Len(collection))
       => /\ last'.rows # -1
          /\ Len(pswpContainer') > K]_vars

\* C4 amended: addItems of a non-empty array when everything is materialized
\* re-runs the layout over the whole collection and reveals getRowsPerPage()
\* rows in the same call; the materialized count strictly increases whenever
\* getRowsPerPage() is at least 1.
C4_AutoReveal ==
    [][(last'.op = "addItems" /\ NonEmptyArray(last'.input) /\ K = Len(collection))
       => LET K2 == Len(pswpContainer')
              n == Len(collection')
          IN  /\ n = Len(collection) + Len(last'.input.items)
              /\ \A i \in 1..n : collection'[i].row >= 0
              /\ \A i \in 1..(n - 1) : collection'[i].row <= collection'[i + 1].row
              /\ last'.rows \in {getRowsPerPage(vh) : vh \in VisibleHeights}
              /\ SubSeq(pswpContainer', 1, K) = pswpContainer
              /\ {pswpContainer'[i] : i \in (K + 1)..K2}
                     = RevealedIds(collection', K, last'.rows)
              /\ (last'.rows >= 1 => K2 > K)
              /\ last'.hooks = <<>>]_vars

C4_Witness ==
    /\ last.op = "addItems"
    /\ NonEmptyArray(last.input)
    /\ last.pre.k = last.pre.len
    /\ last.pre.len > 0
    /\ last.rows >= 1
    /\ K > last.pre.k

\* C5: addItems of a non-empty array when the materialized set is a strict
\* prefix of a non-empty collection appends the new items at the end in input
\* order and leaves pswpContainer (and the rendered elements) unchanged.
C5_DeferredReveal ==
    [][(/\ last'.op = "addItems"
        /\ NonEmptyArray(last'.input)
        /\ Len(collection) > 0
        /\ K < Len(collection))
       => /\ Len(collection') = Len(collection) + Len(last'.input.items)
          /\ \A i \in 1..Len(collection) :
                 /\ collection'[i].id = collection[i].id
                 /\ collection'[i].ratio = collection[i].ratio
          /\ \A j \in 1..Len(last'.input.items) :
                 collection'[Len(collection) + j].ratio = last'.input.items[j]
          /\ pswpContainer' = pswpContainer
          /\ attached' = attached
          /\ last'.rows = -1]_vars

C5_Witness ==
    /\ last.op = "addItems"
    /\ NonEmptyArray(last.input)
    /\ last.pre.k > 0
    /\ last.pre.k < last.pre.len
    /\ Len(collection) > last.pre.len
    /\ K = last.pre.k

\* C6: addItems with anything that is not a non-empty array returns without
\* raising an error and changes nothing.
C6_MalformedIgnored ==
    [][(last'.op = "addItems" /\ ~NonEmptyArray(last'.input))
       => /\ ~last'.thrown
          /\ GalleryUnchanged]_vars

\* C7: a resize that observes the recorded width changes nothing; every resize
\* leaves the observed width recorded, so that a repeated call with the same
\* width is such a no-op.
C7_RedundantResizeNoop ==
    [][last'.op = "resize"
       => /\ bodyWidth' = last'.width
          /\ (last'.width = bodyWidth
              => /\ GalleryUnchanged
                 /\ last'.hooks = <<>>
                 /\ ~last'.thrown
                 /\ last'.rows = -1)]_vars

C7_Witness ==
    /\ last.op = "resize"
    /\ last.width = last.pre.bodyWidth
    /\ Len(collection) > 0
    /\ K > 0
    /\ K < Len(collection)

\* C8: after a resize that observes a changed width on a non-empty collection the
\* materialized set ends on a row boundary of the new layout: it is the whole
\* collection, or every materialized item lies in a row above the row of the
\* first unmaterialized item.
C8_NoPartialRowAfterResize ==
    (last.op = "resize" /\ last.width # last.pre.bodyWidth /\ Len(collection) > 0)
    => /\ K <= Len(collection)
       /\ OnRowBoundary(collection, K)

\* a partial row was visible before the resize, and the resize cut the
\* collection between two rows
C8_Witness ==
    /\ last.op = "resize"
    /\ last.width # last.pre.bodyWidth
    /\ last.pre.k > 0
    /\ ~last.pre.boundary
    /\ K > 0
    /\ K < Len(collection)

\* C9: reset() leaves pswpContainer empty, detaches the element of every item,
\* shows the empty-state indicator and leaves the collection unchanged.
C9_Reset ==
    [][last'.op = "reset"
       => /\ pswpContainer' = <<>>
          /\ attached' = <<>>
          /\ noResults' = "block"
          /\ collection' = collection]_vars

C9_Witness ==
    /\ last.op = "reset"
    /\ last.pre.k > 0
    /\ last.pre.len > 0
    /\ K = 0
    /\ Len(collection) = last.pre.len

\* C10: every scroll event records its offset; it fires iff the offset grew and
\* the viewport bottom reached the gallery bottom; a firing event performs one
\* addElements(1) followed by one pagination(1) call; any other event changes
\* neither pswpContainer nor the collection and calls no hook.
C10_ScrollTrigger ==
    [][last'.op = "scroll"
       => LET fires == /\ last'.scroll.top > old_scroll_top
                       /\ last'.scroll.top + last'.scroll.height >= last'.scroll.end
          IN  /\ old_scroll_top' = last'.scroll.top
              /\ fires => /\ last'.rows = 1
                          /\ Len(last'.hooks) = IF events.pagination THEN 1 ELSE 0
              /\ ~fires => /\ pswpContainer' = pswpContainer
                           /\ collection' = collection
                           /\ last'.hooks = <<>>
                           /\ last'.rows = -1]_vars

\* C11: every pagination-hook call passes the collection length and, for a
\* non-empty collection, (the largest number of items in one row) times the rows
\* requested, for an empty one the estimate per row times getRowsPerPage() times
\* 2; without a pagination callback no call is made.
C11_PaginationSizing ==
    /\ ~events.pagination => last.hooks = <<>>
    /\ \A i \in 1..Len(last.hooks) :
         LET h == last.hooks[i]
             rowsRequested == IF last.op = "next" THEN last.rows ELSE 1
             inRow(r) == Cardinality({j \in 1..Len(collection) : collection[j].row = r})
         IN  /\ h[1] = Len(collection)
             /\ Len(collection) > 0
                =>  \E j \in 1..Len(collection) :
                        /\ \A l \in 1..Len(collection) :
                               inRow(collection[l].row) <= inRow(collection[j].row)
                        /\ h[2] = inRow(collection[j].row) * rowsRequested
             /\ Len(collection) = 0
                =>  h[2] \in {simulatePagination(bodyWidth) * getRowsPerPage(vh) * 2 :
                                  vh \in VisibleHeights}

\* the "next" button asked for two rows of a layout with two items in a row
C11_Witness ==
    /\ last.op = "next"
    /\ last.rows = 2
    /\ Len(collection) > 1
    /\ last.hooks = << <<Len(collection), 4>> >>

\* C12: getRowsPerPage returns options.limit whenever it is non-zero; otherwise
\* the larger of minRowsAtStart and floor((winHeight - offsetTop) / (rowHeight *
\* 0.7)), hence never less than minRowsAtStart (800, 100, 350 and 2 give 2).
C12_RowsPerPage ==
    last.op = "getRowsPerPage"
    => LET visible == last.winHeight - last.offsetTop
           raw == CHOOSE q \in -20..20 :
                      /\ q * rowHeight * 7 <= visible * 10
                      /\ visible * 10 < (q + 1) * rowHeight * 7
       IN  /\ options.limit # 0 => last.result = options.limit
           /\ options.limit = 0
              => /\ last.result = IF raw > options.minRowsAtStart
                                  THEN raw ELSE options.minRowsAtStart
                 /\ last.result >= options.minRowsAtStart
           /\ (/\ options.limit = 0
               /\ options.minRowsAtStart = 2
               /\ last.winHeight = 800
               /\ last.offsetTop = 100) => last.result = 2

C12_Witness ==
    /\ last.op = "getRowsPerPage"
    /\ options = [limit |-> 0, minRowsAtStart |-> 2]
    /\ last.winHeight = 800
    /\ last.offsetTop = 100
    /\ last.result = 2

\* C13: after every call of addElements the "more" button is hidden exactly when
\* pswpContainer is as long as the collection.
C13_MoreButton ==
    last.rows # -1
    => (nextButton = "none" <=> Len(pswpContainer) = Len(collection))

\* a reveal that left items behind, and so the button on display
C13_Witness ==
    /\ last.rows # -1
    /\ K > 0
    /\ K < Len(collection)
    /\ nextButton = "block"

\* C14: addElements called while the collection is empty raises no error, with
\* or without a 'natural-gallery-images' element, leaves pswpContainer empty,
\* shows the no-results element, hides the "more" button and calls no hook.
C14_RevealOnEmpty ==
    [][(last'.op = "addElements" /\ Len(collection) = 0)
       => /\ ~last'.thrown
          /\ pswpContainer' = <<>>
          /\ collection' = <<>>
          /\ noResults' = "block"
          /\ nextButton' = "none"
          /\ last'.hooks = <<>>]_vars

\* the same call on a gallery that has the 'natural-gallery-images' element
C14_RevealOnEmptyWithHeader ==
    [][(last'.op = "addElements" /\ Len(collection) = 0 /\ imagesEl # "absent")
       => /\ ~last'.thrown
          /\ pswpContainer' = <<>>
          /\ noResults' = "block"
          /\ nextButton' = "none"
          /\ imagesEl' = "none"
          /\ last'.hooks = <<>>]_vars

\* C15: in every reachable state the items attached to the body element are
\* the items of pswpContainer, in the same order; both sequences hold what was
\* added since the last reset, and neither holds an item twice.
C15_Lockstep ==
    /\ attached = pswpContainer
    /\ \A i, j \in 1..Len(pswpContainer) :
           pswpContainer[i] = pswpContainer[j] => i = j
    /\ \A i, j \in 1..Len(attached) : attached[i] = attached[j] => i = j

\* two reveals in a row without a reset in between
C15_Witness ==
    /\ last.op \in {"addElements", "next", "scroll"}
    /\ last.pre.k > 0
    /\ K > last.pre.k
    /\ attached = pswpContainer

\* C16: the selection never holds an item twice; a select of an unselected item
\* or an unselect of a selected one calls the select callback exactly once, with
\* the fields of the selected items after the change in selection order; a call
\* that changes nothing leaves the selection as it was and calls nothing.
C16_Selection ==
    /\ \A i, j \in 1..Len(selected) : selected[i] = selected[j] => i = j
    /\ last.op \in {"select", "unselect"}
       => LET was == \E i \in 1..Len(last.pre) : last.pre[i] = last.item
              changes == IF last.op = "select" THEN ~was ELSE was
          IN  /\ (changes /\ last.op = "select") => selected = Append(last.pre, last.item)
              /\ (changes /\ last.op = "unselect")
                 => selected = SelectSeq(last.pre, LAMBDA id : id # last.item)
              /\ (changes /\ events.select)
                 => last.calls = << [j \in 1..Len(selected)
                                        |-> fields(collection[selected[j]])] >>
              /\ ~changes => (selected = last.pre /\ last.calls = <<>>)

\* the second of three selected items is unselected and the callback gets the
\* fields of the two that remain, which differ
C16_Witness ==
    /\ last.op = "unselect"
    /\ Len(last.pre) = 3
    /\ last.item = last.pre[2]
    /\ Len(last.calls) = 1
    /\ Len(last.calls[1]) = 2
    /\ last.calls[1][1] # last.calls[1][2]

C18_EmptyState ==
    noResults = "block" <=> K = 0

\* addItems on a gallery that was reset: the collection grew, nothing is shown
C18_Witness ==
    /\ last.op = "addItems"
    /\ last.pre.k = 0
    /\ last.pre.len > 0
    /\ Len(collection) > last.pre.len
    /\ K = 0
    /\ noResults = "block"

\* the whole collection is materialized and the "more" button hidden
Disclosed == K = Len(collection) /\ nextButton = "none"

\* an addElements call for at least one row with items left to show lengthens
\* pswpContainer; no reveal shortens it or changes what it held; once everything
\* is disclosed a reveal changes nothing
RevealSafety ==
    /\ [][(last'.rows >= 1 /\ K < Len(collection)) => Len(pswpContainer') > K]_vars
    /\ [][/\ Len(pswpContainer') >= K
          /\ SubSeq(pswpContainer', 1, K) = pswpContainer]_vars
    /\ [][Disclosed => /\ pswpContainer' = pswpContainer
                       /\ collection' = collection
                       /\ attached' = attached
                       /\ nextButton' = "none"]_vars

\* C19 as stated: every addElements(rowCount >= 1) with items left increases the
\* materialized count and none decreases it; with the "more" button clicked again
\* and again on a fixed collection everything is eventually disclosed for good,
\* and further reveals change nothing.
C19_ProgressAlways ==
    /\ RevealSafety
    /\ <>[]Disclosed

\* C19, amended: the same, with the eventual disclosure claimed for galleries
\* whose getRowsPerPage() is at least 1 (limit >= 1 or minRowsAtStart >= 1).
C19_Progress ==
    /\ RevealSafety
    /\ (options.limit >= 1 \/ options.minRowsAtStart >= 1) => <>[]Disclosed

\* a click on the "more" button disclosed the rest of a collection of which a
\* part was already shown
C19_Witness ==
    /\ last.op = "next"
    /\ last.rows >= 1
    /\ last.pre.k > 0
    /\ K > last.pre.k
    /\ Disclosed

TypeOK ==
    /\ Len(collection) <= MaxItems
    /\ Len(pswpContainer) <= Len(collection)
    /\ nextButton \in {"none", "block"}
    /\ noResults \in {"none", "block"}
====
